---- MODULE Spec2Model ----
(***************************************************************************)
(* Model of the implied-volatility engine of volatility-surface:           *)
(*   src/src/calculators/implied_volatility.py  (IVCalculator, bs_*_price) *)
(*   src/src/config/config.py                   (thresholds and bounds)    *)
(*                                                                         *)
(* Numbers.  Python floats are modelled in fixed point.  Dimensionless     *)
(* quantities (sigma, T in years, r, q, d1, d2, cdf values, discount       *)
(* factors) are integers counting millionths (ONE = 1.0).  Money (S, K,    *)
(* market_price, option prices) is counted in cents (CENT = 1.00).  TLC    *)
(* integers are 32 bits wide, so products and quotients are computed by    *)
(* Mul and Div below, which never leave that range for the inputs used.    *)
(***************************************************************************)
EXTENDS Integers, Sequences, FiniteSets, TLC

\* ------------------------------------------------------------------------
\* Fixed-point arithmetic
\* ------------------------------------------------------------------------
ONE == 1000 * 1000
CENT == 10 * 10

Abs(x) == IF x < 0 THEN -x ELSE x
Sgn(x) == IF x < 0 THEN -1 ELSE IF x > 0 THEN 1 ELSE 0
Max(a, b) == IF a > b THEN a ELSE b
Min(a, b) == IF a < b THEN a ELSE b

\* a * b / ONE for a, b >= 0 (truncated), without a 32-bit overflow
MulN(a, b) ==
    LET a1 == a \div 1000
        a0 == a % 1000
        b1 == b \div 1000
        b0 == b % 1000
    IN  a1 * b1 + (a1 * b0 + a0 * b1 + (a0 * b0) \div 1000) \div 1000

Mul(a, b) == Sgn(a) * Sgn(b) * MulN(Abs(a), Abs(b))

\* the first n decimal digits of r / b (0 <= r < b), as an integer
RECURSIVE Frac(_, _, _)
Frac(r, b, n) ==
    IF n = 0 THEN 0
    ELSE LET d == (r * 10) \div b
             e == Frac((r * 10) % b, b, n - 1)
         IN  d * (10 ^ (n - 1)) + e

\* a * ONE / b for a >= 0, b > 0 (truncated), saturating at lim * ONE
DivN(a, b, lim) ==
    IF a \div b >= lim THEN lim * ONE
    ELSE (a \div b) * ONE + Frac(a % b, b, 6)

\* largest quotient the model keeps: |d1|, |d2| beyond it give cdf 0 or 1
SAT == 2 * 1000

Div(a, b) == Sgn(a) * Sgn(b) * DivN(Abs(a), Abs(b), SAT)

\* np.sqrt: square root of a fixed-point value (integer square root, Newton)
RECURSIVE IsqrtIter(_, _)
IsqrtIter(n, x) ==
    LET y == (x + n \div x) \div 2
    IN  IF y >= x THEN x ELSE IsqrtIter(n, y)

Isqrt(n) == IF n <= 0 THEN 0 ELSE IsqrtIter(n, n)

Sqrt(x) == Isqrt(x) * 1000

\* np.exp: e^(-y) for y >= 0, by e^-n * Taylor series of e^-f, 0 <= f < 1
E_INV == 367879

RECURSIVE PowN(_, _)
PowN(b, n) == IF n = 0 THEN ONE ELSE MulN(b, PowN(b, n - 1))

RECURSIVE ExpSeries(_, _, _)
ExpSeries(f, k, term) ==
    IF term = 0 \/ k > 12 THEN 0
    ELSE term + ExpSeries(f, k + 1, -(MulN(Abs(term), f) \div k) * Sgn(term))

ExpNeg(y) ==
    LET n == y \div ONE
        f == y % ONE
    IN  IF n > 14 THEN 0 ELSE MulN(PowN(E_INV, n), ExpSeries(f, 1, ONE))

Exp(y) == IF y <= 0 THEN ExpNeg(-y) ELSE Div(ONE, ExpNeg(y))

\* np.log: ln(x) for x > 0, by x = m * 2^k, 1 <= m < 2, and the atanh series
LN2 == 693147

RECURSIVE LnSeries(_, _, _)
LnSeries(z2, k, pw) ==
    IF pw = 0 \/ k > 15 THEN 0
    ELSE pw \div k + LnSeries(z2, k + 2, MulN(pw, z2))

RECURSIVE Ln(_)
Ln(x) ==
    IF x >= 2 * ONE THEN LN2 + Ln(x \div 2)
    ELSE IF x < ONE THEN Ln(x * 2) - LN2
    ELSE LET z == DivN(x - ONE, x + ONE, SAT)
         IN  2 * LnSeries(MulN(z, z), 1, z)

\* scipy.stats.norm.cdf: Abramowitz-Stegun 26.2.17, exact to the last digit
\* kept; beyond |x| = PHI_SAT the value is 0 or 1
PHI_SAT == 6 * ONE
INV_SQRT_2PI == 398942
AS_P == 231642
AS_B1 == 319382
AS_B2 == 356564
AS_B3 == 1781478
AS_B4 == 1821256
AS_B5 == 1330274

PhiUpper(x) ==
    LET t  == DivN(ONE, ONE + MulN(AS_P, x), SAT)
        t2 == MulN(t, t)
        t3 == MulN(t2, t)
        t4 == MulN(t3, t)
        t5 == MulN(t4, t)
        poly == MulN(AS_B1, t) - MulN(AS_B2, t2) + MulN(AS_B3, t3)
                - MulN(AS_B4, t4) + MulN(AS_B5, t5)
        pdf == MulN(INV_SQRT_2PI, ExpNeg(MulN(x, x) \div 2))
    IN  MulN(pdf, poly)

Phi(x) ==
    IF x >= PHI_SAT THEN ONE
    ELSE IF x <= -PHI_SAT THEN 0
    ELSE IF x = 0 THEN ONE \div 2
    ELSE IF x > 0 THEN ONE - PhiUpper(x)
    ELSE PhiUpper(-x)

\* ------------------------------------------------------------------------
\* Configuration (src/src/config/config.py), in the units above
\* ------------------------------------------------------------------------
IV_MIN_BOUND == 1
IV_MAX_BOUND == 5000000
IV_CONVERGENCE_TOLERANCE == 100
INTRINSIC_VALUE_TOLERANCE == 99
MIN_SPOT_PRICE == 1
MIN_STRIKE_PRICE == 1
MIN_TIME_TO_EXPIRY == 1
MIN_MARKET_PRICE == 1
MIN_RISK_FREE_RATE == 0
MAX_RISK_FREE_RATE == 1000000
MIN_DIVIDEND_YIELD == 0
MAX_DIVIDEND_YIELD == 1000000

\* ------------------------------------------------------------------------
\* Python values that are not finite floats
\* ------------------------------------------------------------------------
\* a Python int too large for a float (10**400): int / int and int * float
\* raise OverflowError on it, comparisons and int - int do not
HugeInt == 2000 * ONE

\* float('nan'): every comparison with it is False, arithmetic on it gives
\* nan again
NaN == 0 - HugeInt - 1

IsHuge(x) == x # NaN /\ Abs(x) >= HugeInt \div 2

\* x < y, x > y, x <= y, x >= y on Python numbers
Lt(x, y) == x # NaN /\ y # NaN /\ x < y
Gt(x, y) == x # NaN /\ y # NaN /\ x > y
Le(x, y) == x # NaN /\ y # NaN /\ x <= y
Ge(x, y) == x # NaN /\ y # NaN /\ x >= y

\* an option_type that is not a str (None, 5): it has no .lower()
NotAStr == "<not a str>"

\* str.lower() on the option types used
Lower(s) ==
    CASE s = "CALL" -> "call"
      [] s = "Call" -> "call"
      [] s = "PUT" -> "put"
      [] s = "Put" -> "put"
      [] OTHER -> s

\* ------------------------------------------------------------------------
\* bs_call_price, bs_put_price (implied_volatility.py 18-63)
\* ------------------------------------------------------------------------
\* S / K raises OverflowError when the int quotient does not fit a float
RatioRaises(S, K) == IsHuge(S) \/ IsHuge(K)

\* (np.log(S / K) + (r - q + 0.5 * sigma ** 2) * T) / (sigma * np.sqrt(T))
D1(S, K, T, r, sigma, q) ==
    LET num == Ln(Div(S, K)) + Mul(r - q + Mul(sigma, sigma) \div 2, T)
    IN  Div(Div(num, sigma), Sqrt(T))

\* d1 - sigma * np.sqrt(T)
D2(S, K, T, r, sigma, q) ==
    D1(S, K, T, r, sigma, q) - Mul(sigma, Sqrt(T))

bs_call_price(S, K, T, r, sigma, q) ==
    IF T <= 0 THEN Max(S - K, 0)
    ELSE LET d1 == D1(S, K, T, r, sigma, q)
             d2 == D2(S, K, T, r, sigma, q)
         IN  Mul(S, Mul(Exp(-Mul(q, T)), Phi(d1)))
               - Mul(K, Mul(Exp(-Mul(r, T)), Phi(d2)))

bs_put_price(S, K, T, r, sigma, q) ==
    IF T <= 0 THEN Max(K - S, 0)
    ELSE LET d1 == D1(S, K, T, r, sigma, q)
             d2 == D2(S, K, T, r, sigma, q)
         IN  Mul(K, Mul(Exp(-Mul(r, T)), Phi(-d2)))
               - Mul(S, Mul(Exp(-Mul(q, T)), Phi(-d1)))

\* ------------------------------------------------------------------------
\* BlackScholes.price (black_scholes.py 48-89)
\* ------------------------------------------------------------------------
\* what a call gives: a float, None, or an exception
Value(v) == [kind |-> "value", val |-> v, exc |-> ""]
None == [kind |-> "None", val |-> 0, exc |-> ""]
Raised(e) == [kind |-> "raise", val |-> 0, exc |-> e]
Running == [kind |-> "running", val |-> 0, exc |-> ""]
NoResult == [kind |-> "", val |-> 0, exc |-> ""]

OptionData(S, K, T, r, sigma, q, ot) ==
    [S |-> S, K |-> K, T |-> T, r |-> r, sigma |-> sigma, q |-> q,
     option_type |-> ot]

\* norm.cdf of the d1 = d2 that BlackScholes.price computes at T = 0, where
\* sigma * np.sqrt(T) is 0.0: log(S / K) / 0.0 is inf, -inf or (0.0 / 0.0)
\* nan in numpy, with a warning and without an exception
CdfAtExpiry(S, K) == IF S > K THEN ONE ELSE IF S < K THEN 0 ELSE NaN

\* faulty variant: every option_type other than 'call' is priced as a put
BlackScholesPriceElsePut(od) ==
    IF od.T < 0 THEN Value(NaN)
    ELSE IF od.T = 0
        THEN LET cdf == CdfAtExpiry(od.S, od.K)
             IN  IF cdf = NaN THEN Value(NaN)
                 ELSE IF od.option_type = "call"
                     THEN Value(Mul(od.S, cdf) - Mul(od.K, cdf))
                 ELSE Value(Mul(od.K, ONE - cdf) - Mul(od.S, ONE - cdf))
    ELSE IF od.option_type = "call"
        THEN Value(bs_call_price(od.S, od.K, od.T, od.r, od.sigma, od.q))
    ELSE Value(bs_put_price(od.S, od.K, od.T, od.r, od.sigma, od.q))

\* BlackScholes.price: d1 and d2 are computed first (np.sqrt of a negative
\* T is nan), then the branch on option_type prices or raises
BlackScholesPrice(od) ==
    IF od.option_type \notin {"call", "put"} THEN Raised("ValueError")
    ELSE IF od.T < 0 THEN Value(NaN)
    ELSE IF od.T = 0
        THEN LET cdf == CdfAtExpiry(od.S, od.K)
             IN  IF cdf = NaN THEN Value(NaN)
                 ELSE IF od.option_type = "call"
                     THEN Value(Mul(od.S, cdf) - Mul(od.K, cdf))
                 ELSE Value(Mul(od.K, ONE - cdf) - Mul(od.S, ONE - cdf))
    ELSE LET d1 == D1(od.S, od.K, od.T, od.r, od.sigma, od.q)
             d2 == D2(od.S, od.K, od.T, od.r, od.sigma, od.q)
             dq == Exp(-Mul(od.q, od.T))
             dr == Exp(-Mul(od.r, od.T))
         IN  IF od.option_type = "call"
                 THEN Value(Mul(od.S, Mul(dq, Phi(d1)))
                              - Mul(od.K, Mul(dr, Phi(d2))))
                 ELSE Value(Mul(od.K, Mul(dr, Phi(-d2)))
                              - Mul(od.S, Mul(dq, Phi(-d1))))

\* norm.pdf
Pdf(x) == Mul(INV_SQRT_2PI, Exp(-(Mul(x, x) \div 2)))

\* faulty variant: delta validates option_type the way price does
BlackScholesDeltaStrict(od) ==
    IF od.option_type \notin {"call", "put"} THEN Raised("ValueError")
    ELSE IF od.T < 0 THEN Value(NaN)
    ELSE LET cdf == IF od.T = 0 THEN CdfAtExpiry(od.S, od.K)
                    ELSE Phi(D1(od.S, od.K, od.T, od.r, od.sigma, od.q))
             dq == Exp(-Mul(od.q, od.T))
         IN  IF cdf = NaN THEN Value(NaN)
             ELSE IF od.option_type = "call" THEN Value(Mul(dq, cdf))
             ELSE Value(Mul(dq, cdf - ONE))

\* BlackScholes.delta (black_scholes.py 91-110): d1 as in price, then
\* exp(-q T) cdf(d1) for 'call' and exp(-q T) (cdf(d1) - 1) otherwise
BlackScholesDelta(od) ==
    IF od.T < 0 THEN Value(NaN)
    ELSE LET cdf == IF od.T = 0 THEN CdfAtExpiry(od.S, od.K)
                    ELSE Phi(D1(od.S, od.K, od.T, od.r, od.sigma, od.q))
             dq == Exp(-Mul(od.q, od.T))
         IN  IF cdf = NaN THEN Value(NaN)
             ELSE IF od.option_type = "call" THEN Value(Mul(dq, cdf))
             ELSE Value(Mul(dq, cdf - ONE))

\* theta / 365, truncated toward zero
PerDay(x) == Sgn(x) * (Abs(x) \div 365)

\* BlackScholes.theta (black_scholes.py 154-187). At T <= 0 the first term
\* divides by 2 * np.sqrt(T), which is 0.0 or nan: the result is nan.
BlackScholesTheta(od) ==
    IF od.T <= 0 THEN Value(NaN)
    ELSE LET d1 == D1(od.S, od.K, od.T, od.r, od.sigma, od.q)
             d2 == D2(od.S, od.K, od.T, od.r, od.sigma, od.q)
             dq == Exp(-Mul(od.q, od.T))
             dr == Exp(-Mul(od.r, od.T))
             decay == Div(Mul(Mul(od.S, Mul(dq, Pdf(d1))), od.sigma),
                          2 * Sqrt(od.T))
         IN  IF od.option_type = "call"
                 THEN Value(PerDay(
                        - decay
                        - Mul(Mul(od.r, od.K), Mul(dr, Phi(d2)))
                        + Mul(Mul(od.q, od.S), Mul(dq, Phi(d1)))))
                 ELSE Value(PerDay(
                        - decay
                        + Mul(Mul(od.r, od.K), Mul(dr, Phi(-d2)))
                        - Mul(Mul(od.q, od.S), Mul(dq, Phi(-d1)))))

\* ------------------------------------------------------------------------
\* Bounds of the model
\* ------------------------------------------------------------------------
\* calculate_iv calls between two resets
MaxCalls == 2
\* iteration budget of the root finder (brentq's maxiter)
MaxIter == 3
\* volatilities the root finder may evaluate strictly inside its bounds:
\* GridStep, 2 * GridStep, ..., GridPoints * GridStep
GridPoints == 4
GridStep == ONE \div 5

SigmaGrid ==
    {IV_MIN_BOUND, IV_MAX_BOUND} \cup {k * GridStep : k \in 1..GridPoints}

\* ------------------------------------------------------------------------
\* Arguments of calculate_iv
\* ------------------------------------------------------------------------
Args(S, K, T, r, p, q, ot) ==
    [S |-> S, K |-> K, T |-> T, r |-> r, market_price |-> p, q |-> q,
     option_type |-> ot]

NoArgs == Args(0, 0, 0, 0, 0, 0, "")

\* arguments in the documented ranges
UsualInputs ==
    {Args(S, K, ONE, 0, p, 0, ot) :
        S \in {90 * CENT, 100 * CENT}, K \in {90 * CENT, 100 * CENT},
        p \in {5 * CENT, 10 * CENT}, ot \in {"call", "put"}}

Seed == Args(100 * CENT, 100 * CENT, ONE, ONE \div 20, 10 * CENT, 0, "call")

\* one argument of Seed replaced, most by an unusual value
OddInputs ==
    {Seed}
    \cup {[Seed EXCEPT !.S = v] : v \in {-100 * CENT, 0, NaN}}
    \cup {[Seed EXCEPT !.S = HugeInt, !.option_type = ot] : ot \in {"call", "put"}}
    \cup {[Seed EXCEPT !.K = v] : v \in {-100 * CENT, 0}}
    \cup {[Seed EXCEPT !.T = v] : v \in {-ONE, 0, MIN_TIME_TO_EXPIRY}}
    \cup {[Seed EXCEPT !.r = v] : v \in {-1, 2 * ONE}}
    \cup {[Seed EXCEPT !.q = v] : v \in {-1, 13 * 1000, 2 * ONE}}
    \cup {[Seed EXCEPT !.market_price = v] :
             v \in {-5 * CENT, 0, MIN_MARKET_PRICE, 200 * CENT}}
    \cup {[Seed EXCEPT !.option_type = v] :
             v \in {"CALL", "Put", "invalid", NotAStr}}
    \cup {[Seed EXCEPT !.S = 0, !.option_type = NotAStr]}

\* round trips: valid parameters and a volatility strictly inside the
\* bounds, at the money and deep in the money
RoundTripCases ==
    {OptionData(100 * CENT, 100 * CENT, ONE, ONE \div 20, x, 0, "call") :
        x \in {GridStep, 2 * GridStep}}
    \cup {OptionData(S, 100 * CENT, ONE, ONE \div 20, GridStep, 0, "put") :
             S \in {50 * CENT, 100 * CENT}}

\* calculate_iv's arguments in a round trip: market_price is the pricer's
\* price
RoundTripArgs(od) ==
    Args(od.S, od.K, od.T, od.r, BlackScholesPrice(od).val, od.q,
         od.option_type)

\* RoundTripArgs tabulated once
RoundTripTable == [od \in RoundTripCases |-> RoundTripArgs(od)]

RoundTripInputs == {RoundTripTable[od] : od \in RoundTripCases}

\* a call 10.00 in the money priced at exactly 0.99 times that
BoundaryInputs ==
    {Args(100 * CENT, 90 * CENT, ONE, 0,
          (10 * CENT * INTRINSIC_VALUE_TOLERANCE) \div 100, 0, "call")}

Inputs == UsualInputs \cup OddInputs \cup RoundTripInputs \cup BoundaryInputs

\* ------------------------------------------------------------------------
\* State
\* ------------------------------------------------------------------------
VARIABLES
    calculation_count,  \* IVCalculator.calculation_count
    failed_count,       \* IVCalculator.failed_count
    pc,                 \* where the running calculate_iv call is ("idle": none)
    args,               \* arguments of the running or last calculate_iv call
    option_type,        \* calculate_iv's local option_type after .lower()
    xcur, xblk,         \* brentq: current iterate and the other end of the bracket
    iter,               \* brentq: iterations done
    result,             \* how the last finished calculate_iv call ended
    log,                \* last message handed to the logger
    stats,              \* last dictionary returned by get_statistics
    pre,                \* counters, last result and last log message when the
                        \* running or last call started
    calls,              \* calculate_iv calls started since construction or reset
    steps,              \* steps the running or last call went through
    evals,              \* pricer evaluations of the running or last call
    seen,               \* whether "Statistics reset" was the last log message
                        \* when get_statistics was last called
    inst,               \* one IVCalculator per worker (SpecWorkers)
    quote,              \* an OptionData and what the pricer gave for it
                        \* (SpecPricer)
    fetch,              \* one OptionDataFetcher.prepare_for_iv call (SpecFetcher)
    batch,              \* one calculate_ivs call of streamlit_app (SpecBatch)
    registry,           \* the loggers of the logging module (SpecLogger)
    plot                \* SurfacePlotter.COLORMAP_PRESETS and the figures made
                        \* (SpecPlotter)

vars == <<calculation_count, failed_count, pc, args, option_type, xcur, xblk,
          iter, result, log, stats, pre, calls, steps, evals, seen, inst,
          quote, fetch, batch, registry, plot>>

\* the variables of the calculator observed alone
calcvars == <<calculation_count, failed_count, pc, args, option_type, xcur,
              xblk, iter, result, log, stats, pre, calls, steps, evals, seen>>

\* no worker and no quote: the state of inst and quote when one calculator
\* alone is observed
NoInst == <<>>
NoQuote == <<>>

\* the variables of the fetcher, the batch caller, the logging module and the
\* plotter, and their state when none of these is observed
aside == <<fetch, batch, registry, plot>>
NoFetch == <<>>
NoBatch == <<>>
NoRegistry == <<>>
NoPlot == <<>>

NoStats == [total |-> -1, successful |-> -1, failed |-> -1, success_rate |-> -1]

\* IVCalculator.__init__
InitCalculator ==
    /\ calculation_count = 0
    /\ failed_count = 0
    /\ pc = "idle"
    /\ args = NoArgs
    /\ option_type = ""
    /\ xcur = 0
    /\ xblk = 0
    /\ iter = 0
    /\ result = NoResult
    /\ log = "IVCalculator initialized"
    /\ stats = NoStats
    /\ pre = [total |-> 0, failed |-> 0, result |-> NoResult, log |-> ""]
    /\ calls = 0
    /\ steps = <<>>
    /\ evals = 0
    /\ seen = FALSE

\* one calculator, observed alone
Init ==
    /\ InitCalculator
    /\ inst = NoInst
    /\ quote = NoQuote
    /\ fetch = NoFetch
    /\ batch = NoBatch
    /\ registry = NoRegistry
    /\ plot = NoPlot

\* ------------------------------------------------------------------------
\* IVCalculator._validate_inputs (implied_volatility.py 161-198)
\* ------------------------------------------------------------------------
\* what a function call gives: a returned message ("" is None) or an exception
Returns(m) == [exc |-> "", msg |-> m]
Throws(e) == [exc |-> e, msg |-> ""]

\* faulty variant: the option type is not validated
_validate_inputs_any_type(a) ==
    IF Lt(a.S, MIN_SPOT_PRICE) THEN Returns("Spot price must be >=")
    ELSE IF Lt(a.K, MIN_STRIKE_PRICE) THEN Returns("Strike price must be >=")
    ELSE IF Lt(a.T, MIN_TIME_TO_EXPIRY)
        THEN Returns("Time to expiration must be >=")
    ELSE IF Lt(a.market_price, MIN_MARKET_PRICE)
        THEN Returns("Market price must be >=")
    ELSE IF Lt(a.r, MIN_RISK_FREE_RATE) \/ Gt(a.r, MAX_RISK_FREE_RATE)
        THEN Returns("Risk-free rate should be between")
    ELSE IF Lt(a.q, MIN_DIVIDEND_YIELD) \/ Gt(a.q, MAX_DIVIDEND_YIELD)
        THEN Returns("Dividend yield should be between")
    ELSE IF a.option_type = NotAStr THEN Throws("AttributeError")
    ELSE Returns("")

_validate_inputs(a) ==
    IF Lt(a.S, MIN_SPOT_PRICE) THEN Returns("Spot price must be >=")
    ELSE IF Lt(a.K, MIN_STRIKE_PRICE) THEN Returns("Strike price must be >=")
    ELSE IF Lt(a.T, MIN_TIME_TO_EXPIRY)
        THEN Returns("Time to expiration must be >=")
    ELSE IF Lt(a.market_price, MIN_MARKET_PRICE)
        THEN Returns("Market price must be >=")
    ELSE IF Lt(a.r, MIN_RISK_FREE_RATE) \/ Gt(a.r, MAX_RISK_FREE_RATE)
        THEN Returns("Risk-free rate should be between")
    ELSE IF Lt(a.q, MIN_DIVIDEND_YIELD) \/ Gt(a.q, MAX_DIVIDEND_YIELD)
        THEN Returns("Dividend yield should be between")
    ELSE IF a.option_type = NotAStr THEN Throws("AttributeError")
    ELSE IF Lower(a.option_type) \notin {"call", "put"}
        THEN Returns("Option type must be 'call' or 'put'")
    ELSE Returns("")

\* ------------------------------------------------------------------------
\* calculate_iv (implied_volatility.py 83-159)
\* ------------------------------------------------------------------------
\* intrinsic_value, line 123
IntrinsicValue(a, ot) ==
    IF a.S = NaN \/ a.K = NaN THEN NaN
    ELSE IF ot = "call" THEN Max(a.S - a.K, 0) ELSE Max(a.K - a.S, 0)

\* faulty variant: a price equal to intrinsic_value * tolerance is rejected
BelowOrAtIntrinsic(a, ot) ==
    /\ a.market_price # NaN
    /\ IntrinsicValue(a, ot) # NaN
    /\ a.market_price * 100
          <= IntrinsicValue(a, ot) * INTRINSIC_VALUE_TOLERANCE

\* market_price < intrinsic_value * tolerance, line 126 (tolerance in percent)
BelowIntrinsic(a, ot) ==
    /\ a.market_price # NaN
    /\ IntrinsicValue(a, ot) # NaN
    /\ a.market_price * 100
          < IntrinsicValue(a, ot) * INTRINSIC_VALUE_TOLERANCE

\* an argument of the pricer or the market price is nan: the objective is
\* nan at every volatility
ObjectiveNaN(a) == \E x \in {a.S, a.K, a.T, a.r, a.q, a.market_price} : x = NaN

\* the argument sets on which the pricer is evaluated: those that pass
\* validation and whose S / K is a float
Priced(a) ==
    /\ _validate_inputs(a) = Returns("")
    /\ ~RatioRaises(a.S, a.K)
    /\ ~ObjectiveNaN(a)

Market(a) == <<a.S, a.K, a.T, a.r, a.q>>

\* the (S, K, T, r, q) on which the pricer is evaluated
Markets ==
    {Market(a) :
        a \in {i \in UsualInputs \cup OddInputs \cup BoundaryInputs : Priced(i)}}
    \cup {<<od.S, od.K, od.T, od.r, od.q>> : od \in RoundTripCases}

\* bs_call_price and bs_put_price tabulated once for the arguments and
\* volatilities of the model
CallPrices ==
    [m \in Markets |->
        [x \in SigmaGrid |-> bs_call_price(m[1], m[2], m[3], m[4], x, m[5])]]

PutPrices ==
    [m \in Markets |->
        [x \in SigmaGrid |-> bs_put_price(m[1], m[2], m[3], m[4], x, m[5])]]

\* objective_function, lines 131-136
objective_function(a, ot, sigma) ==
    IF ot = "call"
        THEN CallPrices[Market(a)][sigma] - a.market_price
        ELSE PutPrices[Market(a)][sigma] - a.market_price

\* an evaluation of objective_function raises: S / K in the pricer
ObjectiveRaises(a) == a.T > 0 /\ RatioRaises(a.S, a.K)

\* the call ends with outcome res
Return(res) ==
    /\ result' = res
    /\ pc' = "idle"
    /\ xcur' = 0
    /\ xblk' = 0
    /\ iter' = 0

\* faulty variant: a failure is counted twice
FailCountsTwice(msg) ==
    /\ log' = msg
    /\ failed_count' = failed_count + 2
    /\ Return(None)

\* faulty variant: a failure returns 0.0 instead of None
FailReturnsZero(msg) ==
    /\ log' = msg
    /\ failed_count' = failed_count + 1
    /\ Return(Value(0))

\* logger.debug(msg); self.failed_count += 1; return None
Fail(msg) ==
    /\ log' = msg
    /\ failed_count' = failed_count + 1
    /\ Return(None)

\* faulty variant: a success takes back one counted failure
SucceedForgivesFailure(v) ==
    /\ Return(Value(v))
    /\ failed_count' = failed_count - 1
    /\ UNCHANGED log

\* return implied_vol, line 145
Succeed(v) ==
    /\ Return(Value(v))
    /\ UNCHANGED <<failed_count, log>>

\* an exception no except clause of calculate_iv matches leaves the call
Escape(e) ==
    /\ Return(Raised(e))
    /\ UNCHANGED <<failed_count, log>>

\* line 110: self.calculation_count += 1
Call(a) ==
    /\ pc = "idle"
    /\ calls < MaxCalls
    /\ calculation_count' = calculation_count + 1
    /\ args' = a
    /\ option_type' = a.option_type
    /\ pc' = "validate"
    /\ result' = Running
    /\ pre' = [total |-> calculation_count, failed |-> failed_count,
               result |-> result, log |-> log]
    /\ calls' = calls + 1
    /\ steps' = <<"count">>
    /\ evals' = 0
    /\ xcur' = 0
    /\ xblk' = 0
    /\ iter' = 0
    /\ UNCHANGED <<failed_count, log, stats, seen, inst, quote, aside>>

\* faulty variant: a calculator that has counted a failure rejects every
\* later call
ValidateRemembersFailure ==
    /\ pc = "validate"
    /\ steps' = Append(steps, "validate")
    /\ LET v == _validate_inputs(args)
       IN  IF v.exc # "" THEN Escape(v.exc) /\ UNCHANGED option_type
           ELSE IF v.msg # "" \/ failed_count > 0
               THEN Fail("Input validation failed") /\ UNCHANGED option_type
           ELSE /\ option_type' = Lower(option_type)
                /\ pc' = "arbitrage"
                /\ UNCHANGED <<failed_count, log, result, xcur, xblk, iter>>
    /\ UNCHANGED <<calculation_count, args, stats, pre, seen, inst, quote, aside, calls, evals>>

\* lines 113-120: validation, then option_type = option_type.lower()
Validate ==
    /\ pc = "validate"
    /\ steps' = Append(steps, "validate")
    /\ LET v == _validate_inputs(args)
       IN  IF v.exc # "" THEN Escape(v.exc) /\ UNCHANGED option_type
           ELSE IF v.msg # ""
               THEN Fail("Input validation failed") /\ UNCHANGED option_type
           ELSE /\ option_type' = Lower(option_type)
                /\ pc' = "arbitrage"
                /\ UNCHANGED <<failed_count, log, result, xcur, xblk, iter>>
    /\ UNCHANGED <<calculation_count, args, stats, pre, seen, inst, quote, aside, calls, evals>>

\* faulty variant: the intrinsic value check counts the failure but does not return
ArbitrageFallsThrough ==
    /\ pc = "arbitrage"
    /\ steps' = Append(steps, "arbitrage")
    /\ IF IsHuge(IntrinsicValue(args, option_type))
           THEN Escape("OverflowError")
       ELSE IF BelowIntrinsic(args, option_type)
           THEN /\ log' = "Market price below intrinsic value"
                /\ failed_count' = failed_count + 1
                /\ pc' = "search"
                /\ UNCHANGED <<result, xcur, xblk, iter>>
       ELSE /\ pc' = "search"
            /\ UNCHANGED <<failed_count, log, result, xcur, xblk, iter>>
    /\ UNCHANGED <<calculation_count, args, option_type, stats, pre, seen, inst, quote, aside, calls,
                   evals>>

\* lines 122-129: the intrinsic value check
Arbitrage ==
    /\ pc = "arbitrage"
    /\ steps' = Append(steps, "arbitrage")
    /\ IF IsHuge(IntrinsicValue(args, option_type))
           THEN Escape("OverflowError")
       ELSE IF BelowIntrinsic(args, option_type)
           THEN Fail("Market price below intrinsic value")
       ELSE /\ pc' = "search"
            /\ UNCHANGED <<failed_count, log, result, xcur, xblk, iter>>
    /\ UNCHANGED <<calculation_count, args, option_type, stats, pre, seen, inst, quote, aside, calls,
                   evals>>

\* ------------------------------------------------------------------------
\* scipy.optimize.brentq as called at lines 140-144: f is evaluated at both
\* bounds; a zero there is returned at once; equal signs raise ValueError;
\* otherwise each iteration either ends with the current iterate (converged)
\* or evaluates f at one more point inside the bracket; after MaxIter
\* iterations RuntimeError is raised.  Which inner point an iteration takes
\* (interpolation or bisection) is left open: any point of SigmaGrid
\* strictly inside the bracket.
\* ------------------------------------------------------------------------
F(x) == objective_function(args, option_type, x)

\* brentq's default xtol, 2e-12, and rtol, 8.9e-16, in millionths
BrentqDefaultTol == 2 \div ONE

\* the arguments of the call at lines 140-144: the objective and the two
\* bounds; xtol, rtol and maxiter are not passed and keep scipy's defaults
BrentqArgs ==
    [a |-> IV_MIN_BOUND, b |-> IV_MAX_BOUND, xtol |-> BrentqDefaultTol,
     rtol |-> BrentqDefaultTol]

Interior(a, b) == {x \in SigmaGrid : Min(a, b) < x /\ x < Max(a, b)}

\* the end of the bracket with the smaller |f| is the current iterate
Best(c, b) == IF Abs(F(b)) < Abs(F(c)) THEN b ELSE c
Other(c, b) == IF Abs(F(b)) < Abs(F(c)) THEN c ELSE b

\* brentq stops at a zero, at a bracket narrower than xtol + rtol * |x|,
\* and here when no volatility of the model is left inside the bracket
Converged(c, b) ==
    \/ F(c) = 0
    \/ Abs(b - c) < BrentqArgs.xtol + Mul(BrentqArgs.rtol, Abs(c))
    \/ Interior(c, b) = {}

\* lines 138-152: brentq starts; except ValueError (brentq raises ValueError
\* too when the objective is nan at the first point it evaluates)
BrentStart ==
    /\ pc = "search"
    /\ steps' = Append(steps, "search")
    /\ IF ObjectiveRaises(args)
           THEN Escape("OverflowError") /\ evals' = 1
       ELSE IF ObjectiveNaN(args)
           THEN Fail("Brent's method bracketing error") /\ evals' = 1
       ELSE /\ evals' = 2
            /\ IF F(IV_MIN_BOUND) = 0 THEN Succeed(IV_MIN_BOUND)
               ELSE IF F(IV_MAX_BOUND) = 0 THEN Succeed(IV_MAX_BOUND)
               ELSE IF Sgn(F(IV_MIN_BOUND)) = Sgn(F(IV_MAX_BOUND))
                   THEN Fail("Brent's method bracketing error")
               ELSE /\ pc' = "iterate"
                    /\ xcur' = IV_MAX_BOUND
                    /\ xblk' = IV_MIN_BOUND
                    /\ UNCHANGED <<failed_count, log, result, iter>>
    /\ UNCHANGED <<calculation_count, args, option_type, stats, pre, seen, inst, quote, aside, calls>>

\* one iteration of brentq that ends the search: return implied_vol, line 145
BrentConverge ==
    /\ pc = "iterate"
    /\ iter < MaxIter
    /\ Converged(Best(xcur, xblk), Other(xcur, xblk))
    /\ Succeed(Best(xcur, xblk))
    /\ UNCHANGED <<calculation_count, args, option_type, stats, pre, seen, inst, quote, aside, calls,
                   steps, evals>>

\* one iteration of brentq that evaluates f at a new point x
BrentIterate(x) ==
    /\ pc = "iterate"
    /\ iter < MaxIter
    /\ LET c == Best(xcur, xblk)
           b == Other(xcur, xblk)
       IN  /\ ~Converged(c, b)
           /\ x \in Interior(c, b)
           /\ xcur' = x
           /\ xblk' = IF F(x) # 0 /\ Sgn(F(x)) # Sgn(F(c)) THEN c ELSE b
    /\ iter' = iter + 1
    /\ evals' = evals + 1
    /\ UNCHANGED <<calculation_count, failed_count, pc, args, option_type,
                   result, log, stats, pre, seen, inst, quote, aside, calls, steps>>

\* faulty variant: the last iterate is returned when the budget is used up
BrentExhaustedReturnsIterate ==
    /\ pc = "iterate"
    /\ iter = MaxIter
    /\ Succeed(Best(xcur, xblk))
    /\ UNCHANGED <<calculation_count, args, option_type, stats, pre, seen, inst, quote, aside, calls,
                   steps, evals>>

\* faulty variant: the convergence handler logs the bracketing message
BrentExhaustedLogsBracketing ==
    /\ pc = "iterate"
    /\ iter = MaxIter
    /\ Fail("Brent's method bracketing error")
    /\ UNCHANGED <<calculation_count, args, option_type, stats, pre, seen, inst, quote, aside, calls,
                   steps, evals>>

\* brentq raises RuntimeError after MaxIter iterations; lines 154-159
BrentExhausted ==
    /\ pc = "iterate"
    /\ iter = MaxIter
    /\ Fail("Brent's method convergence error")
    /\ UNCHANGED <<calculation_count, args, option_type, stats, pre, seen, inst, quote, aside, calls,
                   steps, evals>>

\* ------------------------------------------------------------------------
\* get_statistics (200-221), reset_statistics (223-227)
\* ------------------------------------------------------------------------
\* faulty variant: the rate of the failures instead of the successes
FailureRate(total, failed) ==
    IF total > 0 THEN Div(failed * 100, total) ELSE 0

\* success_rate, in millionths of a percent
SuccessRate(total, failed) ==
    IF total > 0 THEN Div((total - failed) * 100, total) ELSE 0

\* faulty variant: 'successful' forgets to subtract the failures
get_statistics_successful_is_total ==
    /\ pc = "idle"
    /\ stats' = [total |-> calculation_count,
                 successful |-> calculation_count,
                 failed |-> failed_count,
                 success_rate |-> SuccessRate(calculation_count, failed_count)]
    /\ seen' = (log = "Statistics reset")
    /\ UNCHANGED <<calculation_count, failed_count, pc, args, option_type,
                   xcur, xblk, iter, result, log, pre, inst, quote, aside, calls, steps, evals>>

get_statistics ==
    /\ pc = "idle"
    /\ stats' = [total |-> calculation_count,
                 successful |-> calculation_count - failed_count,
                 failed |-> failed_count,
                 success_rate |-> SuccessRate(calculation_count, failed_count)]
    /\ seen' = (log = "Statistics reset")
    /\ UNCHANGED <<calculation_count, failed_count, pc, args, option_type,
                   xcur, xblk, iter, result, log, pre, inst, quote, aside, calls, steps, evals>>

\* faulty variant: only failed_count is zeroed
reset_statistics_keeps_total ==
    /\ pc = "idle"
    /\ calculation_count' = calculation_count
    /\ failed_count' = 0
    /\ log' = "Statistics reset"
    /\ calls' = 0
    /\ UNCHANGED <<pc, args, option_type, xcur, xblk, iter, result, stats,
                   pre, seen, inst, quote, aside, steps, evals>>

\* faulty variant: only calculation_count is zeroed
reset_statistics_keeps_failed ==
    /\ pc = "idle"
    /\ calculation_count' = 0
    /\ failed_count' = failed_count
    /\ log' = "Statistics reset"
    /\ calls' = 0
    /\ UNCHANGED <<pc, args, option_type, xcur, xblk, iter, result, stats,
                   pre, seen, inst, quote, aside, steps, evals>>

reset_statistics ==
    /\ pc = "idle"
    /\ calculation_count' = 0
    /\ failed_count' = 0
    /\ log' = "Statistics reset"
    /\ calls' = 0
    /\ UNCHANGED <<pc, args, option_type, xcur, xblk, iter, result, stats,
                   pre, seen, inst, quote, aside, steps, evals>>

Next ==
    \/ \E a \in Inputs : Call(a)
    \/ Validate
    \/ Arbitrage
    \/ BrentStart
    \/ BrentConverge
    \/ \E x \in SigmaGrid : BrentIterate(x)
    \/ BrentExhausted
    \/ get_statistics
    \/ reset_statistics

Spec == Init /\ [][Next]_vars

\* ------------------------------------------------------------------------
\* One IVCalculator per worker.  Each worker calls calculate_iv,
\* get_statistics and reset_statistics on its own instance; the workers'
\* steps interleave freely.  A calculate_iv call takes two steps, the count
\* at line 110 and the rest of the call, so other workers run in between.
\* ------------------------------------------------------------------------
NumWorkers == 2
Workers == 1..NumWorkers

\* IVCalculator.__init__, with the arguments of the call that is running
NewCalculator ==
    [calculation_count |-> 0, failed_count |-> 0, pc |-> "idle",
     args |-> NoArgs]

NoSnapshot == [of |-> 0, total |-> -1, failed |-> -1]

\* calc: the instances; made, lost: calls started and failures counted on
\* each instance since its last reset; last: the last snapshot any worker
\* took
NewWorkers ==
    [calc |-> [w \in Workers |-> NewCalculator],
     made |-> [w \in Workers |-> 0],
     lost |-> [w \in Workers |-> 0],
     last |-> NoSnapshot]

\* arguments the workers use: a usual call, which may succeed or fail in
\* the root search, and one that raises
WorkerInputs == {Seed, [Seed EXCEPT !.option_type = NotAStr]}

\* how calculate_iv(a) can end (lines 112-159): "value", "None" or "raise"
Outcomes(a) ==
    LET v == _validate_inputs(a)
        ot == Lower(a.option_type)
        lo == objective_function(a, ot, IV_MIN_BOUND)
        hi == objective_function(a, ot, IV_MAX_BOUND)
    IN  IF v.exc # "" THEN {"raise"}
        ELSE IF v.msg # "" THEN {"None"}
        ELSE IF IsHuge(IntrinsicValue(a, ot)) THEN {"raise"}
        ELSE IF BelowIntrinsic(a, ot) THEN {"None"}
        ELSE IF ObjectiveRaises(a) THEN {"raise"}
        ELSE IF ObjectiveNaN(a) THEN {"None"}
        ELSE IF lo = 0 \/ hi = 0 THEN {"value"}
        ELSE IF Sgn(lo) = Sgn(hi) THEN {"None"}
        ELSE {"value", "None"}

InitWorkers ==
    /\ InitCalculator
    /\ inst = NewWorkers
    /\ quote = NoQuote
    /\ fetch = NoFetch
    /\ batch = NoBatch
    /\ registry = NoRegistry
    /\ plot = NoPlot

\* worker w enters calculate_iv(a): self.calculation_count += 1, line 110
WorkerCall(w, a) ==
    /\ inst.calc[w].pc = "idle"
    /\ inst.made[w] < MaxCalls
    /\ inst' = [inst EXCEPT
                  !.calc[w].calculation_count = @ + 1,
                  !.calc[w].pc = "running",
                  !.calc[w].args = a,
                  !.made[w] = @ + 1]
    /\ UNCHANGED <<calcvars, quote, aside>>

\* faulty variant: failed_count is one counter shared by all instances
WorkerReturnSharedCounter(w) ==
    /\ inst.calc[w].pc = "running"
    /\ \E o \in Outcomes(inst.calc[w].args) :
          inst' = [inst EXCEPT
                     !.calc = [v \in Workers |->
                                 [inst.calc[v] EXCEPT
                                    !.failed_count =
                                        IF o = "None" THEN @ + 1 ELSE @,
                                    !.pc = IF v = w THEN "idle" ELSE @,
                                    !.args = IF v = w THEN NoArgs ELSE @]],
                     !.lost[w] = IF o = "None" THEN @ + 1 ELSE @]
    /\ UNCHANGED <<calcvars, quote, aside>>

\* worker w's call ends, lines 112-159: self.failed_count += 1 on each
\* path that returns None
WorkerReturn(w) ==
    /\ inst.calc[w].pc = "running"
    /\ \E o \in Outcomes(inst.calc[w].args) :
          inst' = [inst EXCEPT
                     !.calc[w].failed_count = IF o = "None" THEN @ + 1 ELSE @,
                     !.calc[w].pc = "idle",
                     !.calc[w].args = NoArgs,
                     !.lost[w] = IF o = "None" THEN @ + 1 ELSE @]
    /\ UNCHANGED <<calcvars, quote, aside>>

\* worker w calls get_statistics on its instance
WorkerStatistics(w) ==
    /\ inst.calc[w].pc = "idle"
    /\ inst' = [inst EXCEPT
                  !.last = [of |-> w,
                            total |-> inst.calc[w].calculation_count,
                            failed |-> inst.calc[w].failed_count]]
    /\ UNCHANGED <<calcvars, quote, aside>>

\* worker w calls reset_statistics on its instance
WorkerReset(w) ==
    /\ inst.calc[w].pc = "idle"
    /\ inst' = [inst EXCEPT
                  !.calc[w].calculation_count = 0,
                  !.calc[w].failed_count = 0,
                  !.made[w] = 0,
                  !.lost[w] = 0]
    /\ UNCHANGED <<calcvars, quote, aside>>

NextWorkers ==
    \/ \E w \in Workers, a \in WorkerInputs : WorkerCall(w, a)
    \/ \E w \in Workers : WorkerReturn(w)
    \/ \E w \in Workers : WorkerStatistics(w)
    \/ \E w \in Workers : WorkerReset(w)

SpecWorkers == InitWorkers /\ [][NextWorkers]_vars

\* ------------------------------------------------------------------------
\* The pricers alone: BlackScholes.price (black_scholes.py 48-89) and the
\* helpers bs_call_price, bs_put_price, each applied once to an OptionData
\* drawn from PricerInputs.
\* ------------------------------------------------------------------------
\* positive spot, strike and volatility; maturities before, at and after
\* expiry; option types that are and are not 'call' or 'put'
PricerInputs ==
    {OptionData(S, 100 * CENT, T, r, sigma, 0, ot) :
        S \in {90 * CENT, 100 * CENT, 110 * CENT},
        T \in {-ONE, 0, ONE \div 4, ONE},
        r \in {0, ONE \div 20},
        sigma \in {GridStep, 2 * GridStep},
        ot \in {"call", "put", "CALL", "invalid"}}

InitPricer ==
    /\ InitCalculator
    /\ inst = NoInst
    /\ fetch = NoFetch
    /\ batch = NoBatch
    /\ registry = NoRegistry
    /\ plot = NoPlot
    /\ quote \in {[data |-> od, fn |-> "", res |-> NoResult] :
                     od \in PricerInputs}

\* BlackScholes.price(quote.data)
Price ==
    /\ quote.fn = ""
    /\ quote' = [quote EXCEPT !.fn = "BlackScholes.price",
                              !.res = BlackScholesPrice(quote.data)]
    /\ UNCHANGED <<calcvars, inst, aside>>

\* bs_call_price(S, K, T, r, sigma, q) on the numbers of quote.data
HelperCall ==
    /\ quote.fn = ""
    /\ quote' = [quote EXCEPT
                   !.fn = "bs_call_price",
                   !.res = LET od == quote.data
                           IN  Value(bs_call_price(od.S, od.K, od.T, od.r,
                                                   od.sigma, od.q))]
    /\ UNCHANGED <<calcvars, inst, aside>>

\* bs_put_price(S, K, T, r, sigma, q) on the numbers of quote.data
HelperPut ==
    /\ quote.fn = ""
    /\ quote' = [quote EXCEPT
                   !.fn = "bs_put_price",
                   !.res = LET od == quote.data
                           IN  Value(bs_put_price(od.S, od.K, od.T, od.r,
                                                  od.sigma, od.q))]
    /\ UNCHANGED <<calcvars, inst, aside>>

\* BlackScholes.delta(quote.data)
Delta ==
    /\ quote.fn = ""
    /\ quote' = [quote EXCEPT !.fn = "BlackScholes.delta",
                              !.res = BlackScholesDelta(quote.data)]
    /\ UNCHANGED <<calcvars, inst, aside>>

\* BlackScholes.theta(quote.data)
Theta ==
    /\ quote.fn = ""
    /\ quote' = [quote EXCEPT !.fn = "BlackScholes.theta",
                              !.res = BlackScholesTheta(quote.data)]
    /\ UNCHANGED <<calcvars, inst, aside>>

NextPricer ==
    \/ Price
    \/ HelperCall
    \/ HelperPut
    \/ Delta
    \/ Theta

SpecPricer == InitPricer /\ [][NextPricer]_vars

\* ------------------------------------------------------------------------
\* Properties
\* ------------------------------------------------------------------------
PassesValidation(a) == _validate_inputs(a) = Returns("")

\* C1: since construction or the last reset_statistics, calculation_count is
\* the number of calculate_iv calls made and 0 <= failed_count <= that number
C1_CountersCountCalls ==
    /\ calculation_count = calls
    /\ 0 <= failed_count
    /\ failed_count <= calls

\* two calls finished since the reset, one of them failed, the last gave a
\* volatility
C1_Witness ==
    /\ pc = "idle"
    /\ calls = 2
    /\ calculation_count = 2
    /\ failed_count = 1
    /\ result.kind = "value"

\* S = 0, S < 0, K <= 0, T <= 0, market_price = 0, market_price < 0 or
\* option_type 'invalid'
InvalidByValue(a) ==
    \/ Le(a.S, 0)
    \/ Le(a.K, 0)
    \/ Le(a.T, 0)
    \/ Le(a.market_price, 0)
    \/ a.option_type = "invalid"

\* C2: a call whose arguments are invalid by value ends at validation with
\* None, failed_count one more and calculation_count one more than before
\* the call
C2_InvalidByValueFails ==
    [][(pc = "validate" /\ InvalidByValue(args)) =>
          /\ pc' = "idle"
          /\ result' = None
          /\ failed_count' = pre.failed + 1
          /\ calculation_count' = pre.total + 1]_vars

\* such a call has returned, on a calculator that had counted a call and a
\* failure before
C2_Witness ==
    /\ pc = "idle"
    /\ InvalidByValue(args)
    /\ result = None
    /\ pre.total = 1
    /\ pre.failed = 1
    /\ calculation_count = 2
    /\ failed_count = 2

\* market_price < intrinsic_value * 0.99 as numbers (an int beyond the float
\* range is above every price)
PriceBelowIntrinsic(a, ot) ==
    IsHuge(IntrinsicValue(a, ot)) \/ BelowIntrinsic(a, ot)

\* C3: a validated call whose market price is below 0.99 * intrinsic value
\* ends with None and failed_count one more than before the call
C3_BelowIntrinsicFails ==
    [][(pc = "arbitrage" /\ PriceBelowIntrinsic(args, option_type)) =>
          /\ pc' = "idle"
          /\ result' = None
          /\ failed_count' = pre.failed + 1]_vars

StepOrder == <<"count", "validate", "arbitrage", "search">>

\* C4: a call goes through count, validate, arbitrage, search in this order,
\* and the pricer is evaluated only for arguments that passed validation and
\* the intrinsic value check
C4_StepOrder ==
    /\ \E n \in 0..Len(StepOrder) : steps = SubSeq(StepOrder, 1, n)
    /\ pc # "idle" => Head(steps) = "count" /\ calculation_count = pre.total + 1
    /\ (evals > 0 \/ pc \in {"search", "iterate"}) =>
          /\ PassesValidation(args)
          /\ ~PriceBelowIntrinsic(args, Lower(args.option_type))

\* a call that failed the intrinsic value check has returned without a
\* pricer evaluation
C4_Witness ==
    /\ pc = "idle"
    /\ steps = <<"count", "validate", "arbitrage">>
    /\ result = None
    /\ log = "Market price below intrinsic value"
    /\ evals = 0

\* C5 as claimed: a returned volatility is strictly inside
\* (IV_MIN_BOUND, IV_MAX_BOUND) and the call leaves failed_count unchanged
C5_ValueInOpenInterval ==
    [][(pc # "idle" /\ pc' = "idle" /\ result'.kind = "value") =>
          /\ IV_MIN_BOUND < result'.val
          /\ result'.val < IV_MAX_BOUND
          /\ failed_count' = pre.failed]_vars

\* C5 amended: a returned volatility is in the closed interval
\* [IV_MIN_BOUND, IV_MAX_BOUND] (a bound is returned when the objective is
\* zero there) and the call leaves failed_count unchanged
C5_ValueInClosedInterval ==
    [][(pc # "idle" /\ pc' = "idle" /\ result'.kind = "value") =>
          /\ IV_MIN_BOUND <= result'.val
          /\ result'.val <= IV_MAX_BOUND
          /\ failed_count' = pre.failed]_vars

\* a call returned the lower bound itself, after an earlier failure
C5_Witness ==
    /\ pc = "idle"
    /\ result = Value(IV_MIN_BOUND)
    /\ pre.failed = 1
    /\ failed_count = 1

\* the root search is about to fail: no sign change between the bounds, or
\* the iteration budget is used up
BracketingFailure ==
    /\ pc = "search"
    /\ ~ObjectiveRaises(args)
    /\ ~ObjectiveNaN(args)
    /\ Sgn(F(IV_MIN_BOUND)) * Sgn(F(IV_MAX_BOUND)) > 0

ConvergenceFailure == pc = "iterate" /\ iter = MaxIter

\* C6: a root search that fails by bracketing or by convergence ends the
\* call with None and failed_count one more than before the call
C6_SearchFailureFails ==
    [][(BracketingFailure \/ ConvergenceFailure) =>
          /\ pc' = "idle"
          /\ result' = None
          /\ failed_count' = pre.failed + 1]_vars

\* a call ended by a convergence failure after an earlier bracketing failure
C6_Witness ==
    /\ pc = "idle"
    /\ result = None
    /\ log = "Brent's method convergence error"
    /\ pre.log = "Brent's method bracketing error"
    /\ pre.result = None
    /\ iter = 0
    /\ evals = 2 + MaxIter
    /\ failed_count = 2

\* C7: an exception raised by the pricer during the root search does not
\* leave calculate_iv: the call ends with None and failed_count one more
C7_PricerExceptionBecomesFailure ==
    [][(pc = "search" /\ ObjectiveRaises(args)) =>
          /\ result' = None
          /\ failed_count' = pre.failed + 1]_vars

\* C8: a call whose arguments validation does not accept ends with None,
\* raises nothing, and failed_count is one more
C8_RejectedNeverRaises ==
    [][(pc = "validate" /\ ~PassesValidation(args)) =>
          /\ result' = None
          /\ failed_count' = pre.failed + 1]_vars

FailureMessages ==
    {"Input validation failed", "Market price below intrinsic value",
     "Brent's method bracketing error", "Brent's method convergence error"}

MessageOf(p) ==
    CASE p = "validate" -> "Input validation failed"
      [] p = "arbitrage" -> "Market price below intrinsic value"
      [] p = "search" -> "Brent's method bracketing error"
      [] p = "iterate" -> "Brent's method convergence error"

C10_SnapshotReadsCounters ==
    [][get_statistics =>
          /\ calculation_count' = calculation_count
          /\ failed_count' = failed_count
          /\ stats'.total = calculation_count
          /\ stats'.failed = failed_count
          /\ stats'.successful = stats'.total - stats'.failed]_vars

\* a snapshot taken after one success and one failure
C10_Witness ==
    /\ pc = "idle"
    /\ calculation_count = 2
    /\ failed_count = 1
    /\ stats.total = 2
    /\ stats.failed = 1
    /\ stats.successful = 1

ZeroStats == [total |-> 0, successful |-> 0, failed |-> 0, success_rate |-> 0]

\* C11: the snapshot's success_rate is (total - failed) / total * 100, to
\* the last digit kept, when total > 0 and is 0 when total = 0; one success
\* and one failure give 50
C11_SuccessRate ==
    [][get_statistics =>
          LET total == calculation_count
              good == calculation_count - failed_count
              rate == stats'.success_rate
          IN  /\ total = 0 => rate = 0
              /\ total > 0 =>
                    /\ rate * total <= good * 100 * ONE
                    /\ good * 100 * ONE < (rate + 1) * total
              /\ (total = 2 /\ good = 1) => rate = 50 * ONE]_vars

\* a snapshot taken after one success and one failure shows 50 percent
C11_Witness ==
    /\ pc = "idle"
    /\ stats.total = 2
    /\ stats.failed = 1
    /\ stats.success_rate = 50 * ONE

\* C12: reset_statistics zeroes both counters whatever calls preceded it, a
\* snapshot taken before the next call is all zero, and the next
\* calculate_iv counts from zero
C12_ResetRestartsCounting ==
    [][/\ reset_statistics =>
             calculation_count' = 0 /\ failed_count' = 0
       /\ (get_statistics /\ log = "Statistics reset" /\ calls = 0) =>
             stats' = ZeroStats
       /\ (pc = "idle" /\ pc' = "validate" /\ log = "Statistics reset"
              /\ calls = 0) =>
             calculation_count' = 1 /\ failed_count' = 0]_vars

\* a failed call, then a reset, then an all-zero snapshot, then a call that
\* succeeded and is counted as the first
C12_Witness ==
    /\ pc = "idle"
    /\ pre.result = None
    /\ pre.log = "Statistics reset"
    /\ seen
    /\ stats = ZeroStats
    /\ result.kind = "value"
    /\ calculation_count = 1
    /\ failed_count = 0

\* C13: a step that lowers calculation_count or failed_count is a
\* reset_statistics; the steps of calculate_iv and get_statistics never
\* lower either
C13_OnlyResetLowers ==
    [][(calculation_count' < calculation_count
           \/ failed_count' < failed_count) => reset_statistics]_vars

\* the counters grew from one snapshot (1 call, 1 failure) to the next
\* state (2 calls, 1 failure), the last call being a success
C13_Witness ==
    /\ pc = "idle"
    /\ stats.total = 1
    /\ stats.failed = 1
    /\ calculation_count = 2
    /\ failed_count = 1
    /\ result.kind = "value"

\* C14: every calculate_iv call that ends has ended with a volatility or
\* with None, after at most 2 + MaxIter pricer evaluations
C14_EndsWithValueOrFailure ==
    [][(pc # "idle" /\ pc' = "idle") =>
          /\ result'.kind \in {"value", "None"}
          /\ evals' <= 2 + MaxIter]_vars

\* C15: no snapshot shows one counter reset and the other not: in every
\* snapshot 0 <= failed <= total, successful >= 0, and total = 0 only
\* together with failed = 0
C15_SnapshotNeverHalfReset ==
    stats # NoStats =>
        /\ 0 <= stats.failed
        /\ stats.failed <= stats.total
        /\ stats.successful >= 0
        /\ stats.total = 0 => stats.failed = 0

\* two failed calls, then a reset, then a snapshot: both counters are seen
\* at zero
C15_Witness ==
    /\ pc = "idle"
    /\ pre.failed = 1
    /\ result = None
    /\ log = "Statistics reset"
    /\ seen
    /\ stats = ZeroStats
    /\ calculation_count = 0
    /\ failed_count = 0

\* C16: in every interleaving each instance's calculation_count and
\* failed_count are the calls started and the failures counted on that
\* instance since its last reset, every snapshot shows the counters of the
\* instance it was taken on, and a step of one worker leaves the counters
\* of every other instance alone
C16_CountersAreInstanceLocal ==
    [][/\ \A w \in Workers :
             /\ inst'.calc[w].calculation_count = inst'.made[w]
             /\ inst'.calc[w].failed_count = inst'.lost[w]
       /\ \A w \in Workers :
             (inst'.calc[w].pc # inst.calc[w].pc
                 \/ inst'.calc[w].calculation_count
                       # inst.calc[w].calculation_count) =>
                \A v \in Workers \ {w} :
                   /\ inst'.calc[v].calculation_count
                         = inst.calc[v].calculation_count
                   /\ inst'.calc[v].failed_count = inst.calc[v].failed_count
       /\ inst'.last # inst.last =>
             /\ inst'.last.total = inst.made[inst'.last.of]
             /\ inst'.last.failed = inst.lost[inst'.last.of]]_vars

\* worker 1 has made two calls, one failed, and took a snapshot, while
\* worker 2 is inside its first call
C16_Witness ==
    /\ inst # NoInst
    /\ inst.calc[1].calculation_count = 2
    /\ inst.calc[1].failed_count = 1
    /\ inst.last = [of |-> 1, total |-> 2, failed |-> 1]
    /\ inst.calc[2].pc = "running"
    /\ inst.calc[2].calculation_count = 1
    /\ inst.calc[2].failed_count = 0

\* the argument sets C17 names as valid, the comparisons being Python's
ClaimedValid(a) ==
    /\ Ge(a.S, MIN_SPOT_PRICE)
    /\ Ge(a.K, MIN_STRIKE_PRICE)
    /\ Ge(a.T, MIN_TIME_TO_EXPIRY)
    /\ Ge(a.market_price, MIN_MARKET_PRICE)
    /\ Ge(a.r, MIN_RISK_FREE_RATE) /\ Le(a.r, MAX_RISK_FREE_RATE)
    /\ Ge(a.q, MIN_DIVIDEND_YIELD) /\ Le(a.q, MAX_DIVIDEND_YIELD)
    /\ a.option_type # NotAStr
    /\ Lower(a.option_type) \in {"call", "put"}

\* C17: a call passes validation exactly when S >= 0.01, K >= 0.01,
\* T >= 1e-6, market_price >= 0.01, 0 <= r <= 1, 0 <= q <= 1 and the
\* lower-cased option_type is 'call' or 'put'; after validation the call
\* works on the lower-cased option_type
C17_ValidExactlyInRange ==
    [][/\ pc = "validate" => (pc' = "arbitrage" <=> ClaimedValid(args))
       /\ pc' \in {"arbitrage", "search", "iterate"} =>
             /\ option_type' \in {"call", "put"}
             /\ option_type' = Lower(args'.option_type)]_vars

\* the option kind a pricer application prices, "" when it prices none
PricedKind(qt) ==
    CASE qt.fn = "bs_call_price" -> "call"
      [] qt.fn = "bs_put_price" -> "put"
      [] qt.fn = "BlackScholes.price"
           /\ qt.data.option_type \in {"call", "put"} -> qt.data.option_type
      [] OTHER -> ""

\* max(S - K, 0) for a call, max(K - S, 0) for a put
Intrinsic(od, kind) ==
    IF kind = "call" THEN Max(od.S - od.K, 0) ELSE Max(od.K - od.S, 0)

\* C18: for T <= 0 BlackScholes.price, bs_call_price and bs_put_price
\* return the intrinsic value exactly
C18_ExpiredIsIntrinsic ==
    (quote # NoQuote /\ PricedKind(quote) # "" /\ quote.data.T <= 0) =>
        quote.res = Value(Intrinsic(quote.data, PricedKind(quote)))

\* C19: BlackScholes.price raises ValueError exactly when option_type is
\* neither 'call' nor 'put'
C19_ValueErrorIffInvalidType ==
    (quote # NoQuote /\ quote.fn = "BlackScholes.price") =>
        (quote.res = Raised("ValueError")
            <=> quote.data.option_type \notin {"call", "put"})

\* BlackScholes.price has raised ValueError on option_type 'invalid' for
\* numbers on which a call is priced
C19_Witness ==
    /\ quote # NoQuote
    /\ quote.fn = "BlackScholes.price"
    /\ quote.data.option_type = "invalid"
    /\ quote.data.T = ONE
    /\ quote.res = Raised("ValueError")

\* 1e-4
RoundTripTolerance == ONE \div 10000

\* C20: a round trip returns a volatility within 1e-4 of the one the price
\* was computed with (calls in which the root finder uses up its iteration
\* budget aside)
C20_RoundTrip ==
    [][\A od \in RoundTripCases :
          (/\ args = RoundTripTable[od]
           /\ pc # "idle"
           /\ pc' = "idle"
           /\ ~ConvergenceFailure) =>
              /\ result'.kind = "value"
              /\ Abs(result'.val - od.sigma) <= RoundTripTolerance]_vars

\* C24: the root search runs with the configured tolerance
\* IV_CONVERGENCE_TOLERANCE, as it runs on the configured bracket
\* [IV_MIN_BOUND, IV_MAX_BOUND]
C24_ConfiguredToleranceUsed ==
    pc = "iterate" =>
        /\ BrentqArgs.a = IV_MIN_BOUND
        /\ BrentqArgs.b = IV_MAX_BOUND
        /\ BrentqArgs.xtol = IV_CONVERGENCE_TOLERANCE

\* 0.99 * intrinsic <= market_price, for the kind the call works on
AtLeastTolerated(a, ot) ==
    LET intrinsic == IF ot = "call" THEN a.S - a.K ELSE a.K - a.S
    IN  /\ a.S # NaN
        /\ ~IsHuge(a.S)
        /\ Max(intrinsic, 0) * INTRINSIC_VALUE_TOLERANCE
              <= a.market_price * 100

\* C25: a validated price p with 0.99 * intrinsic <= p, equality included,
\* passes the intrinsic value check and goes on to the root search without
\* a failure being counted; so does every validated price of an option
\* whose intrinsic value is 0
C25_OnlyStrictlyBelowRejected ==
    [][(pc = "arbitrage" /\ AtLeastTolerated(args, option_type)) =>
          /\ pc' = "search"
          /\ failed_count' = failed_count
          /\ result' = Running]_vars

\* the call priced at exactly 0.99 * intrinsic has reached the root search
C25_Witness ==
    /\ pc = "search"
    /\ args \in BoundaryInputs
    /\ args.market_price * 100
          = (args.S - args.K) * INTRINSIC_VALUE_TOLERANCE
    /\ steps = <<"count", "validate", "arbitrage">>

\* what get_statistics would report as 'successful', lines 211-212
Successful(total, failed) == total - failed

\* C27: over every calculate_iv call failed_count grows by 1 when the call
\* ends with None and by 0 otherwise, and the figure get_statistics reports
\* as 'successful' grows by 1 exactly when the call returned a volatility
\* (reset_statistics zeroes both), so 'successful' counts the calls since
\* the last reset that returned a volatility
C27_SuccessfulCountsVolatilities ==
    [][(pc # "idle" /\ pc' = "idle") =>
          /\ failed_count' - pre.failed = IF result' = None THEN 1 ELSE 0
          /\ Successful(calculation_count', failed_count')
                - Successful(pre.total, pre.failed)
                = IF result'.kind = "value" THEN 1 ELSE 0]_vars

\* the same option data with another option_type
Typed(od, ot) == [od EXCEPT !.option_type = ot]

\* C29: for an option_type other than 'call', 'CALL' and 'invalid' included,
\* BlackScholes.delta and BlackScholes.theta do not raise and give what they
\* give for 'put'; BlackScholes.price raises ValueError for an option_type
\* outside {'call', 'put'}
C29_GreeksFallBackToPut ==
    /\ (quote # NoQuote /\ quote.fn = "BlackScholes.delta"
          /\ quote.data.option_type # "call") =>
            /\ quote.res.kind = "value"
            /\ quote.res = BlackScholesDelta(Typed(quote.data, "put"))
    /\ (quote # NoQuote /\ quote.fn = "BlackScholes.theta"
          /\ quote.data.option_type # "call") =>
            /\ quote.res.kind = "value"
            /\ quote.res = BlackScholesTheta(Typed(quote.data, "put"))
    /\ (quote # NoQuote /\ quote.fn = "BlackScholes.price"
          /\ quote.data.option_type \notin {"call", "put"}) =>
            quote.res = Raised("ValueError")

\* the delta of a 'CALL' option is a number, and not the call's delta
C29_Witness ==
    /\ quote # NoQuote
    /\ quote.fn = "BlackScholes.delta"
    /\ quote.data.option_type = "CALL"
    /\ quote.res.kind = "value"
    /\ quote.res.val # NaN
    /\ quote.res.val < 0
    /\ quote.res # BlackScholesDelta(Typed(quote.data, "call"))

\* how calculate_iv(a) ends, read off the arguments and the configuration
\* constants alone: res is what the call gives and lg the message logged
\* with a failure signal
EndsAs(a, res, lg) ==
    LET v == _validate_inputs(a)
        ot == Lower(a.option_type)
        lo == objective_function(a, ot, IV_MIN_BOUND)
        hi == objective_function(a, ot, IV_MAX_BOUND)
    IN  IF v.exc # "" THEN res = Raised(v.exc)
        ELSE IF v.msg # ""
            THEN res = None /\ lg = "Input validation failed"
        ELSE IF IsHuge(IntrinsicValue(a, ot)) THEN res = Raised("OverflowError")
        ELSE IF BelowIntrinsic(a, ot)
            THEN res = None /\ lg = "Market price below intrinsic value"
        ELSE IF ObjectiveRaises(a) THEN res = Raised("OverflowError")
        ELSE IF ObjectiveNaN(a)
            THEN res = None /\ lg = "Brent's method bracketing error"
        ELSE IF lo = 0 THEN res = Value(IV_MIN_BOUND)
        ELSE IF hi = 0 THEN res = Value(IV_MAX_BOUND)
        ELSE IF Sgn(lo) = Sgn(hi)
            THEN res = None /\ lg = "Brent's method bracketing error"
        ELSE \/ res.kind = "value" /\ res.val \in SigmaGrid
             \/ res = None /\ lg = "Brent's method convergence error"

MaxRows == 3

\* a row of options_df: the columns calculate_ivs reads
Row(a) ==
    [S |-> a.S, strike |-> a.K, T |-> a.T, price |-> a.market_price,
     type |-> a.option_type]

\* rows that solve, that fail validation, that fail the bracketing, and
\* that make calculate_iv raise
BatchRows ==
    {Row(a) : a \in {Seed,
                     [Seed EXCEPT !.S = 0],
                     [Seed EXCEPT !.market_price = 200 * CENT],
                     [Seed EXCEPT !.option_type = NotAStr],
                     [Seed EXCEPT !.S = HugeInt, !.option_type = "put"]}}

\* lines 95-103: the keyword arguments of the calculate_iv call for a row
RowArgs(row, risk_free_rate, dividend_yield) ==
    Args(row.S, row.strike, row.T, risk_free_rate, row.price, dividend_yield,
         row.type)

\* what calculate_iv can give for arguments a
CalculateIv(a) ==
    {res \in {None} \cup {Value(x) : x \in SigmaGrid}
               \cup {Raised(e) : e \in {"AttributeError", "OverflowError"}} :
        \E lg \in {"Input validation failed",
                    "Market price below intrinsic value",
                    "Brent's method bracketing error",
                    "Brent's method convergence error"} : EndsAs(a, res, lg)}

\* np.isfinite
IsFinite(x) == x # NaN /\ ~IsHuge(x)

NoReturn == [ivs |-> <<>>, valid_options |-> <<>>, exc |-> "running"]

InitBatch ==
    /\ InitCalculator
    /\ inst = NoInst
    /\ quote = NoQuote
    /\ fetch = NoFetch
    /\ registry = NoRegistry
    /\ plot = NoPlot
    /\ \E n \in 0..MaxRows : \E rows \in [1..n -> BatchRows] :
          batch = [options_df |-> rows,
                   risk_free_rate |-> Seed.r,
                   dividend_yield |-> Seed.q,
                   pc |-> "start",
                   idx |-> 0,
                   ivs |-> <<>>,
                   valid_options |-> <<>>,
                   computed |-> <<>>,
                   returned |-> NoReturn]

\* lines 76-83: the calculator and the empty lists; an empty options_df
\* returns them at once
BatchStart ==
    /\ batch.pc = "start"
    /\ batch' = IF Len(batch.options_df) = 0
                    THEN [batch EXCEPT
                            !.pc = "done",
                            !.returned = [ivs |-> <<>>, valid_options |-> <<>>,
                                          exc |-> ""]]
                    ELSE [batch EXCEPT !.pc = "loop", !.idx = 1]
    /\ UNCHANGED <<calcvars, inst, quote, fetch, registry, plot>>

\* faulty variant: an exception of calculate_iv leaves calculate_ivs
BatchRowAborts ==
    /\ batch.pc = "loop"
    /\ batch.idx <= Len(batch.options_df)
    /\ LET row == batch.options_df[batch.idx]
       IN  \E res \in CalculateIv(RowArgs(row, batch.risk_free_rate,
                                            batch.dividend_yield)) :
             batch' =
                 IF res.kind = "raise"
                     THEN [batch EXCEPT
                             !.pc = "done",
                             !.computed = Append(@, res),
                             !.returned = [ivs |-> <<>>, valid_options |-> <<>>,
                                           exc |-> res.exc]]
                 ELSE IF res.kind = "value" /\ IsFinite(res.val)
                     THEN [batch EXCEPT
                             !.idx = @ + 1,
                             !.computed = Append(@, res),
                             !.ivs = Append(@, res.val),
                             !.valid_options = Append(@, row)]
                 ELSE [batch EXCEPT !.idx = @ + 1,
                                    !.computed = Append(@, res)]
    /\ UNCHANGED <<calcvars, inst, quote, fetch, registry, plot>>

\* lines 88-109, one pass of the loop: calculate_iv on the row; the row and
\* its volatility are appended when the result is not None and is finite;
\* `except Exception: continue` goes on with the next row
BatchRow ==
    /\ batch.pc = "loop"
    /\ batch.idx <= Len(batch.options_df)
    /\ LET row == batch.options_df[batch.idx]
       IN  \E res \in CalculateIv(RowArgs(row, batch.risk_free_rate,
                                            batch.dividend_yield)) :
             batch' =
                 IF res.kind = "value" /\ IsFinite(res.val)
                     THEN [batch EXCEPT
                             !.idx = @ + 1,
                             !.computed = Append(@, res),
                             !.ivs = Append(@, res.val),
                             !.valid_options = Append(@, row)]
                 ELSE [batch EXCEPT !.idx = @ + 1,
                                    !.computed = Append(@, res)]
    /\ UNCHANGED <<calcvars, inst, quote, fetch, registry, plot>>

\* lines 111-114: return ivs, valid_options
BatchReturn ==
    /\ batch.pc = "loop"
    /\ batch.idx > Len(batch.options_df)
    /\ batch' = [batch EXCEPT
                   !.pc = "done",
                   !.returned = [ivs |-> batch.ivs,
                                 valid_options |-> batch.valid_options,
                                 exc |-> ""]]
    /\ UNCHANGED <<calcvars, inst, quote, fetch, registry, plot>>

NextBatch ==
    \/ BatchStart
    \/ BatchRow
    \/ BatchReturn

SpecBatch == InitBatch /\ [][NextBatch]_vars

\* the rows among the first n whose calculate_iv gave a finite volatility,
\* each with that volatility, in input order
RECURSIVE Solved(_, _, _)
Solved(rows, computed, n) ==
    IF n = 0 THEN <<>>
    ELSE LET before == Solved(rows, computed, n - 1)
         IN  IF computed[n].kind = "value" /\ IsFinite(computed[n].val)
                 THEN Append(before, [row |-> rows[n], iv |-> computed[n].val])
                 ELSE before

\* C21: calculate_ivs returns, and has then called calculate_iv on every
\* row; the rows whose call gave None or raised are left out; ivs and
\* valid_options have one length, at most the number of rows, and pair each
\* kept row with the volatility computed for it, in input order
C21_BatchKeepsSolvedRows ==
    (batch # NoBatch /\ batch.pc = "done") =>
        LET solved == Solved(batch.options_df, batch.computed,
                             Len(batch.computed))
            out == batch.returned
        IN  /\ out.exc = ""
            /\ Len(batch.computed) = Len(batch.options_df)
            /\ Len(out.ivs) = Len(out.valid_options)
            /\ Len(out.ivs) <= Len(batch.options_df)
            /\ Len(out.ivs) = Len(solved)
            /\ \A i \in 1..Len(solved) :
                  /\ out.ivs[i] = solved[i].iv
                  /\ out.valid_options[i] = solved[i].row

\* a batch of three rows returned two volatilities: the call of the first
\* row raised, the third row was still solved
C21_Witness ==
    /\ batch # NoBatch
    /\ batch.pc = "done"
    /\ Len(batch.options_df) = 3
    /\ batch.computed[1].kind = "raise"
    /\ batch.computed[2].kind = "value"
    /\ batch.computed[3].kind = "value"
    /\ Len(batch.returned.ivs) = 2
    /\ batch.returned.valid_options[2] = batch.options_df[3]

\* ------------------------------------------------------------------------
\* OptionDataFetcher.prepare_for_iv (market_data.py 39-102) on a ticker whose
\* spot price, expirations and option chains are drawn at the start.  Money
\* and strikes are in cents, expirations in days counted from today, and
\* today is one day for the whole call.
\* ------------------------------------------------------------------------
\* expirations the ticker lists
MaxExpirations == 3

\* days from today to the expirations a ticker may list
Days == {5, 7, 8, 30, 60}

\* timedelta(days=7), line 155
NearExpiryDays == 7

\* a volume yfinance does not report is nan
Quote(strike, bid, ask, volume) ==
    [strike |-> strike * CENT, bid |-> bid, ask |-> ask, volume |-> volume]

\* opt_chain.calls of test_prepare_for_iv_with_filters
TestCalls ==
    <<Quote(80, 2000, 2050, 50), Quote(90, 1000, 1050, 100),
      Quote(100, 500, 550, 200), Quote(110, 200, 250, 100),
      Quote(120, 50, 100, 50)>>

\* calls without a bid, without an ask, without a volume, and one struck at
\* 115 % of the spot price
ThinCalls ==
    <<Quote(95, 0, 750, 200), Quote(100, 500, 0, 200),
      Quote(105, 300, 350, NaN), Quote(115, 100, 150, 100)>>

\* what self.ticker.option_chain gives for an expiration
Chains ==
    {[raises |-> TRUE, calls |-> <<>>],
     [raises |-> FALSE, calls |-> <<>>],
     [raises |-> FALSE, calls |-> TestCalls],
     [raises |-> FALSE, calls |-> ThinCalls]}

\* min_strike_pct, max_strike_pct and min_volume of a prepare_for_iv call
FetchParams ==
    {[min_strike_pct |-> 90, max_strike_pct |-> 110, min_volume |-> 75],
     [min_strike_pct |-> 80, max_strike_pct |-> 115, min_volume |-> 0],
     [min_strike_pct |-> 110, max_strike_pct |-> 120, min_volume |-> 10]}

\* Close of the last row of ticker.history
SpotClose == 100 * CENT

\* the elements of a set of numbers in ascending order
RECURSIVE Ascending(_)
Ascending(D) ==
    IF D = {} THEN <<>>
    ELSE LET least == CHOOSE d \in D : \A e \in D : d <= e
         IN  <<least>> \o Ascending(D \ {least})

NoFrame == [kind |-> "running", exc |-> "", msg |-> "", rows |-> <<>>]

InitFetcher ==
    /\ InitCalculator
    /\ inst = NoInst
    /\ quote = NoQuote
    /\ batch = NoBatch
    /\ registry = NoRegistry
    /\ plot = NoPlot
    /\ \E D \in SUBSET Days, params \in FetchParams :
          /\ Cardinality(D) <= MaxExpirations
          /\ \E chain \in [D -> Chains] :
                fetch = [params |-> params,
                         options |-> [k \in 1..Cardinality(D) |->
                                        [days |-> Ascending(D)[k],
                                         chain |-> chain[Ascending(D)[k]]]],
                         pc |-> "spot",
                         spot_price |-> 0,
                         exp_dates |-> <<>>,
                         i |-> 0,
                         option_data |-> <<>>,
                         failed_dates |-> <<>>,
                         out |-> NoFrame]

\* sign of the rounding error of the double 100.0 * (pct / 100) against
\* 100.0 * pct / 100: 100.0 * (110.0 / 100) is 110.00000000000001 and
\* 100.0 * (115.0 / 100) is 114.99999999999999; 80, 90 and 120 are exact
BoundRounding(pct) == IF pct = 110 THEN 1 ELSE IF pct = 115 THEN -1 ELSE 0

\* strike >= spot_price * (min_strike_pct / 100), line 205, in doubles
AboveMinStrike(strike, spot_price, pct) ==
    IF BoundRounding(pct) > 0 THEN strike * 100 > spot_price * pct
    ELSE strike * 100 >= spot_price * pct

\* strike <= spot_price * (max_strike_pct / 100), line 206, in doubles
BelowMaxStrike(strike, spot_price, pct) ==
    IF BoundRounding(pct) < 0 THEN strike * 100 < spot_price * pct
    ELSE strike * 100 <= spot_price * pct

\* calls['volume'].fillna(0), line 197
VolumeFilled(row) == IF row.volume = NaN THEN 0 ELSE row.volume

\* lines 194-198 and 205-206: the rows of a chain that are collected
Collected(row, spot_price, params) ==
    /\ row.bid > 0
    /\ row.ask > 0
    /\ Ge(VolumeFilled(row), params.min_volume)
    /\ AboveMinStrike(row.strike, spot_price, params.min_strike_pct)
    /\ BelowMaxStrike(row.strike, spot_price, params.max_strike_pct)

\* lines 208-215: the dictionary appended for a row
Contract(row, days) ==
    [expiration |-> days, strike |-> row.strike,
     price |-> (row.bid + row.ask) \div 2, type |-> "call",
     volume |-> row.volume, days_to_expiry |-> days]

\* lines 194-215 on the first n rows of a chain
RECURSIVE ContractsOf(_, _, _, _, _)
ContractsOf(quoted, n, days, spot_price, params) ==
    IF n = 0 THEN <<>>
    ELSE LET before == ContractsOf(quoted, n - 1, days, spot_price, params)
         IN  IF Collected(quoted[n], spot_price, params)
                 THEN Append(before, Contract(quoted[n], days))
                 ELSE before

FetcherFrame == <<calcvars, inst, quote, batch, registry, plot>>

\* _fetch_spot_price, lines 115-126
FetchSpotPrice ==
    /\ fetch.pc = "spot"
    /\ fetch' = [fetch EXCEPT !.pc = "dates", !.spot_price = SpotClose]
    /\ UNCHANGED FetcherFrame

\* the expirations more than 7 days out among the first n listed
RECURSIVE FarEnough(_, _)
FarEnough(options, n) ==
    IF n = 0 THEN <<>>
    ELSE IF options[n].days > NearExpiryDays
        THEN Append(FarEnough(options, n - 1), options[n])
    ELSE FarEnough(options, n - 1)

\* _fetch_expiration_dates, lines 145-164
FetchExpirationDates ==
    /\ fetch.pc = "dates"
    /\ LET exp_dates == FarEnough(fetch.options, Len(fetch.options))
       IN  fetch' =
             IF exp_dates = <<>>
                 THEN [fetch EXCEPT
                         !.pc = "done",
                         !.out = [kind |-> "raise", exc |-> "ValueError",
                                  msg |-> "Error fetching expiration dates",
                                  rows |-> <<>>]]
                 ELSE [fetch EXCEPT !.pc = "chains", !.exp_dates = exp_dates,
                                    !.i = 1]
    /\ UNCHANGED FetcherFrame

\* faulty variant: the exception of one expiration leaves the loop
FetchOptionChainAborts ==
    /\ fetch.pc = "chains"
    /\ fetch.i <= Len(fetch.exp_dates)
    /\ LET exp_date == fetch.exp_dates[fetch.i]
       IN  fetch' =
             IF exp_date.chain.raises
                 THEN [fetch EXCEPT
                         !.pc = "done",
                         !.out = [kind |-> "raise", exc |-> "Exception",
                                  msg |-> "", rows |-> <<>>]]
                 ELSE [fetch EXCEPT
                         !.i = @ + 1,
                         !.option_data =
                             @ \o ContractsOf(exp_date.chain.calls,
                                              Len(exp_date.chain.calls),
                                              exp_date.days, fetch.spot_price,
                                              fetch.params)]
    /\ UNCHANGED FetcherFrame

\* one pass of the loop of _fetch_option_chains, lines 188-220
FetchOptionChain ==
    /\ fetch.pc = "chains"
    /\ fetch.i <= Len(fetch.exp_dates)
    /\ LET exp_date == fetch.exp_dates[fetch.i]
       IN  fetch' =
             IF exp_date.chain.raises
                 THEN [fetch EXCEPT
                         !.i = @ + 1,
                         !.failed_dates = Append(@, exp_date.days)]
                 ELSE [fetch EXCEPT
                         !.i = @ + 1,
                         !.option_data =
                             @ \o ContractsOf(exp_date.chain.calls,
                                              Len(exp_date.chain.calls),
                                              exp_date.days, fetch.spot_price,
                                              fetch.params)]
    /\ UNCHANGED FetcherFrame

\* lines 82-98: no contract raises ValueError, otherwise the frame of all
\* collected contracts is returned
PrepareDataFrame ==
    /\ fetch.pc = "chains"
    /\ fetch.i > Len(fetch.exp_dates)
    /\ fetch' =
          IF fetch.option_data = <<>>
              THEN [fetch EXCEPT
                      !.pc = "done",
                      !.out = [kind |-> "raise", exc |-> "ValueError",
                               msg |-> "No valid option data available after filtering",
                               rows |-> <<>>]]
              ELSE [fetch EXCEPT
                      !.pc = "done",
                      !.out = [kind |-> "frame", exc |-> "", msg |-> "",
                               rows |-> fetch.option_data]]
    /\ UNCHANGED FetcherFrame

NextFetcher ==
    \/ FetchSpotPrice
    \/ FetchExpirationDates
    \/ FetchOptionChain
    \/ PrepareDataFrame

SpecFetcher == InitFetcher /\ [][NextFetcher]_vars

\* the conditions of the claim on a quoted call: bid, ask, volume (a volume
\* that is not reported counting as 0) and the strike between the two
\* percentages of the spot price
Wanted(row, spot_price, params) ==
    /\ row.bid > 0
    /\ row.ask > 0
    /\ VolumeFilled(row) >= params.min_volume
    /\ spot_price * params.min_strike_pct <= row.strike * 100
    /\ row.strike * 100 <= spot_price * params.max_strike_pct

\* C22: every contract of the returned frame is a call of the chain of an
\* expiration more than 7 days out that satisfies the conditions on bid,
\* ask, volume and strike, and every such call of a chain that was fetched
\* is in the frame; the chain of the test, filtered at 90 % - 110 % and
\* volume 75, leaves exactly 3 contracts
C22_FrameIsTheWantedContracts ==
    (fetch # NoFetch /\ fetch.out.kind # "running"
        /\ fetch.exp_dates # <<>>) =>
        LET rows == fetch.out.rows
            listed == {fetch.options[k] : k \in 1..Len(fetch.options)}
            fetched == {o \in listed : o.days > NearExpiryDays
                                         /\ ~o.chain.raises}
        IN  /\ \A j \in 1..Len(rows) :
                  \E o \in fetched : \E n \in 1..Len(o.chain.calls) :
                      /\ rows[j] = Contract(o.chain.calls[n], o.days)
                      /\ Wanted(o.chain.calls[n], fetch.spot_price,
                                fetch.params)
            /\ \A o \in fetched : \A n \in 1..Len(o.chain.calls) :
                  Wanted(o.chain.calls[n], fetch.spot_price, fetch.params) =>
                      \E j \in 1..Len(rows) :
                          rows[j] = Contract(o.chain.calls[n], o.days)
            /\ (/\ Len(fetch.options) = 1
                /\ fetch.options[1] = [days |-> 30,
                                        chain |-> [raises |-> FALSE,
                                                   calls |-> TestCalls]]
                /\ fetch.params = [min_strike_pct |-> 90,
                                    max_strike_pct |-> 110,
                                    min_volume |-> 75]) => Len(rows) = 3

\* the contracts of the first n expirations whose chain was fetched
RECURSIVE Gathered(_, _, _, _)
Gathered(exp_dates, n, spot_price, params) ==
    IF n = 0 THEN <<>>
    ELSE LET before == Gathered(exp_dates, n - 1, spot_price, params)
             chain == exp_dates[n].chain
         IN  IF chain.raises THEN before
             ELSE before \o ContractsOf(chain.calls, Len(chain.calls),
                                        exp_dates[n].days, spot_price, params)

LoggerNames == {"src.data.market_data", "test_idempotent"}
Levels == {"DEBUG", "INFO", "WARNING"}

\* a name logging.getLogger has not been asked for yet
NoLogger == [id |-> 0, level |-> "NOTSET", handlers |-> <<>>]

\* no call of logger.py made yet
NoCall == [fn |-> "", name |-> "", returned |-> 0, before |-> NoLogger,
           after |-> NoLogger]

InitLogger ==
    /\ InitCalculator
    /\ inst = NoInst
    /\ quote = NoQuote
    /\ fetch = NoFetch
    /\ batch = NoBatch
    /\ plot = NoPlot
    /\ registry = [loggers |-> [n \in LoggerNames |-> NoLogger],
                   created |-> 0,
                   last |-> NoCall]

LoggerFrame == <<calcvars, inst, quote, fetch, batch, plot>>

\* logging.getLogger(name): the logger of that name, made on first use
GetLoggerOf(reg, name) ==
    IF reg.loggers[name].id # 0 THEN reg
    ELSE [reg EXCEPT !.loggers[name].id = reg.created + 1,
                     !.created = @ + 1]

\* StreamHandler(sys.stdout) with its level, lines 38-46
StreamHandler(level) == [stream |-> "stdout", level |-> level]

\* faulty variant: the handler is added whether or not the logger has one
SetupLoggerAlwaysAdds(name, level) ==
    LET reg == GetLoggerOf(registry, name)
        logger == reg.loggers[name]
        made == [logger EXCEPT
                   !.level = level,
                   !.handlers = Append(@, StreamHandler(level))]
    IN  /\ registry' = [reg EXCEPT
                          !.loggers[name] = made,
                          !.last = [fn |-> "setup_logger", name |-> name,
                                    returned |-> made.id,
                                    before |-> registry.loggers[name],
                                    after |-> made]]
        /\ UNCHANGED LoggerFrame

\* setup_logger(name, level), lines 30-50
SetupLogger(name, level) ==
    LET reg == GetLoggerOf(registry, name)
        logger == reg.loggers[name]
        made == IF logger.handlers # <<>> THEN logger
                ELSE [logger EXCEPT
                        !.level = level,
                        !.handlers = Append(@, StreamHandler(level))]
    IN  /\ registry' = [reg EXCEPT
                          !.loggers[name] = made,
                          !.last = [fn |-> "setup_logger", name |-> name,
                                    returned |-> made.id,
                                    before |-> registry.loggers[name],
                                    after |-> made]]
        /\ UNCHANGED LoggerFrame

\* set_log_level(logger, level) on a logger obtained before, lines 68-70
SetLogLevel(name, level) ==
    /\ registry.loggers[name].id # 0
    /\ LET logger == registry.loggers[name]
           made == [logger EXCEPT
                      !.level = level,
                      !.handlers = [k \in 1..Len(logger.handlers) |->
                                      [logger.handlers[k] EXCEPT
                                         !.level = level]]]
       IN  registry' = [registry EXCEPT
                          !.loggers[name] = made,
                          !.last = [fn |-> "set_log_level", name |-> name,
                                    returned |-> 0,
                                    before |-> logger,
                                    after |-> made]]
    /\ UNCHANGED LoggerFrame

\* get_logger(name), lines 88-89: the logger when it has a handler, else None
GetLogger(name) ==
    LET reg == GetLoggerOf(registry, name)
        logger == reg.loggers[name]
    IN  /\ registry' = [reg EXCEPT
                          !.last = [fn |-> "get_logger", name |-> name,
                                    returned |-> IF logger.handlers # <<>>
                                                     THEN logger.id ELSE 0,
                                    before |-> registry.loggers[name],
                                    after |-> logger]]
        /\ UNCHANGED LoggerFrame

NextLogger ==
    \/ \E name \in LoggerNames, level \in Levels : SetupLogger(name, level)
    \/ \E name \in LoggerNames, level \in Levels : SetLogLevel(name, level)
    \/ \E name \in LoggerNames : GetLogger(name)

SpecLogger == InitLogger /\ [][NextLogger]_vars

\* C23: a setup_logger call for a name whose logger had a handler returned
\* that same logger and left it as it was, handlers included; so no logger
\* ever has more than the one handler of its first setup
C23_SetupLoggerIdempotent ==
    registry # NoRegistry =>
        /\ (registry.last.fn = "setup_logger"
              /\ registry.last.before.handlers # <<>>) =>
                /\ registry.last.returned = registry.last.before.id
                /\ registry.last.after = registry.last.before
                /\ Len(registry.last.after.handlers)
                     = Len(registry.last.before.handlers)
        /\ \A n \in LoggerNames : Len(registry.loggers[n].handlers) <= 1

\* setup_logger was called with another level for a logger that had its
\* handler, and gave the logger back unchanged
C23_Witness ==
    /\ registry # NoRegistry
    /\ registry.last.fn = "setup_logger"
    /\ registry.last.name = "test_idempotent"
    /\ Len(registry.last.before.handlers) = 1
    /\ registry.last.before.level = "INFO"
    /\ registry.last.returned = registry.loggers["test_idempotent"].id
    /\ Len(registry.loggers["test_idempotent"].handlers) = 1

\* ------------------------------------------------------------------------
\* SurfacePlotter.create_surface_plot (surface_plot.py 119-155) and the
\* class attribute COLORMAP_PRESETS (53-80), shared by every plotter.
\* ------------------------------------------------------------------------
\* figures made
MaxPlots == 2

\* a list preset: pairs of a position, in percent, and a colour
COLORMAP_PRESETS ==
    [Hot |-> <<<<0, "rgb(0,0,0)">>, <<25, "rgb(87,0,0)">>,
               <<50, "rgb(255,0,0)">>, <<75, "rgb(255,165,0)">>,
               <<100, "rgb(255,255,0)">>>>,
     Viridis |-> "Viridis",
     Plasma |-> "Plasma",
     Blues |-> <<<<0, "rgb(8,48,107)">>, <<50, "rgb(66,146,198)">>,
                 <<100, "rgb(198,219,239)">>>>,
     Rainbow |-> <<<<0, "rgb(150,0,90)">>, <<25, "rgb(0,0,200)">>,
                   <<50, "rgb(0,200,0)">>, <<75, "rgb(200,200,0)">>,
                   <<100, "rgb(200,0,0)">>>>,
     Greyscale |-> <<<<0, "rgb(0,0,0)">>, <<50, "rgb(128,128,128)">>,
                     <<100, "rgb(255,255,255)">>>>]

\* colormap arguments: the presets and a name that is none of them
Colormaps == DOMAIN COLORMAP_PRESETS \cup {"Jet"}
Themes == {"dark", "light", "Dark"}

\* isinstance(colorscale, list) for the preset of that name
IsList(colormap) == colormap \in {"Hot", "Blues", "Rainbow", "Greyscale"}

\* str.lower() on the themes used
ThemeLower(theme) == IF theme = "Dark" THEN "dark" ELSE theme

InitPlotter ==
    /\ InitCalculator
    /\ inst = NoInst
    /\ quote = NoQuote
    /\ fetch = NoFetch
    /\ batch = NoBatch
    /\ registry = NoRegistry
    /\ plot = [presets |-> COLORMAP_PRESETS, figures |-> <<>>]

PlotterFrame == <<calcvars, inst, quote, fetch, batch, registry>>

\* lines 143-148: the first colour of a 'Hot' list follows the theme
Themed(colorscale, theme, colormap) ==
    IF IsList(colormap) /\ colormap = "Hot"
        THEN [colorscale EXCEPT
                ![1][2] = IF ThemeLower(theme) = "dark" THEN "rgb(0,0,0)"
                          ELSE "rgb(255,255,255)"]
        ELSE colorscale

\* faulty variant: colorscale is the preset itself and not a copy of it
CreateSurfacePlotShared(theme, colormap) ==
    /\ Len(plot.figures) < MaxPlots
    /\ IF colormap \notin DOMAIN plot.presets
           THEN plot' = [plot EXCEPT
                           !.figures = Append(@, [theme |-> theme,
                                                   colormap |-> colormap,
                                                   exc |-> "KeyError",
                                                   colorscale |-> ""])]
           ELSE LET colorscale == Themed(plot.presets[colormap], theme,
                                         colormap)
                IN  plot' = [plot EXCEPT
                               !.presets[colormap] = colorscale,
                               !.figures = Append(@, [theme |-> theme,
                                                       colormap |-> colormap,
                                                       exc |-> "",
                                                       colorscale |-> colorscale])]
    /\ UNCHANGED PlotterFrame

\* create_surface_plot(theme, colormap), lines 135-155: the colorscale of
\* the figure is a deep copy of the preset, adjusted to the theme
CreateSurfacePlot(theme, colormap) ==
    /\ Len(plot.figures) < MaxPlots
    /\ IF colormap \notin DOMAIN plot.presets
           THEN plot' = [plot EXCEPT
                           !.figures = Append(@, [theme |-> theme,
                                                   colormap |-> colormap,
                                                   exc |-> "KeyError",
                                                   colorscale |-> ""])]
           ELSE LET colorscale == Themed(plot.presets[colormap], theme,
                                         colormap)
                IN  plot' = [plot EXCEPT
                               !.figures = Append(@, [theme |-> theme,
                                                       colormap |-> colormap,
                                                       exc |-> "",
                                                       colorscale |-> colorscale])]
    /\ UNCHANGED PlotterFrame

NextPlotter ==
    \E theme \in Themes, colormap \in Colormaps :
        CreateSurfacePlot(theme, colormap)

SpecPlotter == InitPlotter /\ [][NextPlotter]_vars

\* C30: after any calls of create_surface_plot the class-level presets are
\* what the class defines, 'Hot' still starting with 'rgb(0,0,0)', and every
\* dark 'Hot' figure has the colorscale a dark 'Hot' figure made first has
C30_PresetsNeverModified ==
    plot # NoPlot =>
        /\ plot.presets = COLORMAP_PRESETS
        /\ plot.presets["Hot"][1][2] = "rgb(0,0,0)"
        /\ \A k \in 1..Len(plot.figures) :
              (ThemeLower(plot.figures[k].theme) = "dark"
                  /\ plot.figures[k].colormap = "Hot") =>
                  plot.figures[k].colorscale
                    = Themed(COLORMAP_PRESETS["Hot"], "dark", "Hot")

\* a dark 'Hot' figure made after a light 'Hot' one, which starts white
C30_Witness ==
    /\ plot # NoPlot
    /\ Len(plot.figures) = 2
    /\ plot.figures[1].theme = "light"
    /\ plot.figures[1].colormap = "Hot"
    /\ plot.figures[1].colorscale[1][2] = "rgb(255,255,255)"
    /\ plot.figures[2].theme = "dark"
    /\ plot.figures[2].colormap = "Hot"
    /\ plot.figures[2].colorscale[1][2] = "rgb(0,0,0)"

====
